---- MODULE Spec2Model ----
(***************************************************************************)
(* SOCKS5 handshake and tunnel of shift-replace.                           *)
(*                                                                         *)
(* One accepted client connection is followed from the goroutine started   *)
(* by Setup_SOCKS5H_Server through handle_socks5_connection, handleSOCKS5, *)
(* replyMethodSelection, readSockRequest, prepareProxy/connectDst,         *)
(* replyConnInfo and tunnel.  The repository holds two variants of the     *)
(* handler: src/server/server.go (handshake, dial, reply, tunnel) and      *)
(* src/handlers/handler.go (handshake and request parsing only).           *)
(*                                                                         *)
(* Bytes are naturals in 0..255, byte slices are sequences, and strings    *)
(* are sequences of ASCII codes.                                           *)
(***************************************************************************)
EXTENDS Naturals, Sequences, FiniteSets

\* ------------------------------------------------------------ bounds
\* largest NMETHODS a modelled client announces
MaxMethods == 2
\* longest domain name a modelled client sends
MaxDomainLen == 2
\* connections the listener accepts after the one that is followed
MaxConns == 1

\* ------------------------------------------------------------ constants
SOCKS5H_VERSION == 5
RSV == 0
NO_AUTHENTICATION_REQUIRED_method == 0
GSSAPI_method == 1
USERNAME_PASSWORD_method == 2
NO_ACCEPTABLE_METHODS_method == 255
CONNECT_cmd == 1
BIND_cmd == 2
UDP_ASSOCIATE_cmd == 3
IP_V4_addr == 1
DOMAINNAME_addr == 3
IP_V6_addr == 4
SUCCEEDED_connReply == 0
ADDRESS_TYPE_NOT_SUPPORTED_connReply == 8

\* error values returned by the handlers (the texts of errors.New)
ErrNone == "nil"
ErrIO == "i/o error"
ErrNotSocks5 == "non socks5h connection received"
ErrHeaderLen == "ver to aytp in socks5h request isn't of length 4"
ErrVerRsv == "invalid version or rsv"
ErrCmd == "request cmd type is invalid"
ErrAtyp == "invalid atyp provided"
ErrDomainLen == "unable to read domain name length"
ErrDomain == "unable to domain name"
ErrDomainPort == "unable to domain name port"
ErrIPv4 == "unable to ipv4"
ErrIPv4Port == "unable to ipv4 port"
ErrIPv6 == "unable to ipv6"
ErrIPv6Port == "unable to ipv6 port"
ErrNoRemote == "could not create remote connection"
ErrShortReply == "couldn't reply complete connect reply"
ErrTunnel == "readError/writeError"
Panic == "panic: nil pointer dereference"
Running == "running"

\* ------------------------------------------------------------ helpers
Min(a, b) == IF a < b THEN a ELSE b

\* make([]byte, k): a zeroed buffer
Zeros(k) == [i \in 1..k |-> 0]

\* slices.Contains
Contains(s, b) == \E i \in 1..Len(s) : s[i] = b

\* conn.Read(buf) with len(buf) = k on a stream holding s: an empty buffer
\* reads nothing; otherwise the read fails, or fills the first n >= 1 bytes
\* of the buffer with what has arrived, leaving the rest of the buffer zeroed
Read(k, s) ==
  IF k = 0
  THEN {[n |-> 0, err |-> FALSE, buf |-> << >>, rest |-> s]}
  ELSE {[n |-> 0, err |-> TRUE, buf |-> Zeros(k), rest |-> s]}
       \cup {[n |-> n, err |-> FALSE,
              buf |-> SubSeq(s, 1, n) \o Zeros(k - n),
              rest |-> SubSeq(s, n + 1, Len(s))] : n \in 1..Min(k, Len(s))}

\* conn.Write(b) on a TCP connection: all of b is accepted, or the write
\* fails after accepting a proper prefix of it
Write(b) ==
  {[n |-> Len(b), err |-> FALSE]}
  \cup {[n |-> n, err |-> TRUE] : n \in 0..(Len(b) - 1)}

\* ------------------------------------------------------------ client input
Versions == {4, SOCKS5H_VERSION}
MethodBytes == {NO_AUTHENTICATION_REQUIRED_method, GSSAPI_method,
                USERNAME_PASSWORD_method}
MethodLists == UNION {[1..n -> MethodBytes] : n \in 0..MaxMethods}
Commands == {0, CONNECT_cmd, BIND_cmd, UDP_ASSOCIATE_cmd, 4}
AddrTypes == {IP_V4_addr, 2, DOMAINNAME_addr, IP_V6_addr}
Ports == {<<0, 80>>, <<1, 187>>}
DomainNames == UNION {[1..n -> {97}] : n \in 0..MaxDomainLen}

\* DST.ADDR as the client encodes it for an address type
AddrPayloads(atyp) ==
  IF atyp = IP_V4_addr THEN {<<127, 0, 0, 1>>}
  ELSE IF atyp = IP_V6_addr THEN {Zeros(15) \o <<1>>}
  ELSE IF atyp = DOMAINNAME_addr THEN {<<Len(d)>> \o d : d \in DomainNames}
  ELSE {<< >>}

Requests ==
  UNION {{<<ver, cmd, rsv, atyp>> \o a \o p : a \in AddrPayloads(atyp), p \in Ports}
           : ver \in Versions, cmd \in Commands, rsv \in {RSV, 1},
             atyp \in AddrTypes}

\* everything a client sends: version, greeting, connection request
ClientStreams ==
  {<<v, Len(ms)>> \o ms \o rq : v \in Versions, ms \in MethodLists, rq \in Requests}

\* ------------------------------------------------------------ wire codec
\* Socks5_Req{}: the zero request returned beside an error
NoReq == [Version |-> 0, Cmd |-> 0, AType |-> 0, DstAddr |-> << >>, DstPort |-> << >>]

\* return nil, nil, err of an address reader; reads lists the reads the
\* reader made, each as <<bytes asked, bytes returned>>
AddrFail(e, rest, reads) ==
  [err |-> e, addr |-> << >>, port |-> << >>, rest |-> rest, reads |-> reads]

\* mutant: the count returned by the read of the port is not checked
readPort_noLen(addr, s, shortErr, reads) ==
  {IF p.err THEN AddrFail(ErrIO, p.rest, reads \o <<<<2, p.n>>>>)
   ELSE [err |-> ErrNone, addr |-> addr, port |-> p.buf, rest |-> p.rest,
         reads |-> reads \o <<<<2, p.n>>>>]
     : p \in Read(2, s)}

\* the read of the 2 port bytes that ends every address reader
readPort(addr, s, shortErr, reads) ==
  {IF p.err THEN AddrFail(ErrIO, p.rest, reads \o <<<<2, p.n>>>>)
   ELSE IF p.n # 2 THEN AddrFail(shortErr, p.rest, reads \o <<<<2, p.n>>>>)
   ELSE [err |-> ErrNone, addr |-> addr, port |-> p.buf, rest |-> p.rest,
         reads |-> reads \o <<<<2, p.n>>>>]
     : p \in Read(2, s)}

\* readIPV4Addr: 4 address bytes, 2 port bytes
readIPV4Addr(s) ==
  UNION {IF a.err THEN {AddrFail(ErrIO, a.rest, <<<<4, a.n>>>>)}
         ELSE IF a.n # 4 THEN {AddrFail(ErrIPv4, a.rest, <<<<4, a.n>>>>)}
         ELSE readPort(a.buf, a.rest, ErrIPv4Port, <<<<4, a.n>>>>)
           : a \in Read(4, s)}

\* readDomainNameAddr: 1 length byte, that many name bytes, 2 port bytes
readDomainNameAddr(s) ==
  UNION {IF l.err THEN {AddrFail(ErrIO, l.rest, <<<<1, l.n>>>>)}
         ELSE IF l.n # 1 THEN {AddrFail(ErrDomainLen, l.rest, <<<<1, l.n>>>>)}
         ELSE UNION {LET rs == <<<<1, l.n>>, <<l.buf[1], d.n>>>> IN
                     IF d.err THEN {AddrFail(ErrIO, d.rest, rs)}
                     ELSE IF d.n # l.buf[1] THEN {AddrFail(ErrDomain, d.rest, rs)}
                     ELSE readPort(d.buf, d.rest, ErrDomainPort, rs)
                       : d \in Read(l.buf[1], l.rest)}
           : l \in Read(1, s)}

\* readIPV6Addr: 16 address bytes, 2 port bytes
readIPV6Addr(s) ==
  UNION {IF a.err THEN {AddrFail(ErrIO, a.rest, <<<<16, a.n>>>>)}
         ELSE IF a.n # 16 THEN {AddrFail(ErrIPv6, a.rest, <<<<16, a.n>>>>)}
         ELSE readPort(a.buf, a.rest, ErrIPv6Port, <<<<16, a.n>>>>)
           : a \in Read(16, s)}

\* mutant: the command range check lets 04 through
headerError_cmdRange(h) ==
  IF h[1] # SOCKS5H_VERSION \/ h[3] # RSV THEN ErrVerRsv
  ELSE IF h[2] < CONNECT_cmd \/ h[2] > UDP_ASSOCIATE_cmd + 1 THEN ErrCmd
  ELSE ErrNone

\* mutant: the reserved byte is not checked
headerError_noRsv(h) ==
  IF h[1] # SOCKS5H_VERSION THEN ErrVerRsv
  ELSE IF h[2] < CONNECT_cmd \/ h[2] > UDP_ASSOCIATE_cmd THEN ErrCmd
  ELSE ErrNone

\* the checks of readSockRequest on a completely read header
headerError(h) ==
  IF h[1] # SOCKS5H_VERSION \/ h[3] # RSV THEN ErrVerRsv
  ELSE IF h[2] < CONNECT_cmd \/ h[2] > UDP_ASSOCIATE_cmd THEN ErrCmd
  ELSE ErrNone

\* the switch of readSockRequest on atyp
readAddr(atyp, s) ==
  IF atyp = IP_V4_addr THEN readIPV4Addr(s)
  ELSE IF atyp = DOMAINNAME_addr THEN readDomainNameAddr(s)
  ELSE IF atyp = IP_V6_addr THEN readIPV6Addr(s)
  ELSE {AddrFail(ErrAtyp, s, << >>)}

ReqFail(e, h, rest, reads) ==
  [err |-> e, req |-> NoReq, header |-> h.buf, hn |-> h.n, rest |-> rest,
   reads |-> reads]

\* readSockRequest: every outcome of reading one request from stream s
readSockRequest(s) ==
  UNION {IF h.err THEN {ReqFail(ErrIO, h, h.rest, << >>)}
         ELSE IF h.n # 4 THEN {ReqFail(ErrHeaderLen, h, h.rest, << >>)}
         ELSE IF headerError(h.buf) # ErrNone
         THEN {ReqFail(headerError(h.buf), h, h.rest, << >>)}
         ELSE {IF a.err # ErrNone THEN ReqFail(a.err, h, a.rest, a.reads)
               ELSE [err |-> ErrNone,
                     req |-> [Version |-> h.buf[1], Cmd |-> h.buf[2],
                              AType |-> h.buf[4], DstAddr |-> a.addr,
                              DstPort |-> a.port],
                     header |-> h.buf, hn |-> h.n, rest |-> a.rest,
                     reads |-> a.reads]
                 : a \in readAddr(h.buf[4], h.rest)}
           : h \in Read(4, s)}

\* mutant: only the first offered method is looked at
selectMethod_firstOnly(ms) ==
  IF Len(ms) > 0 /\ ms[1] = NO_AUTHENTICATION_REQUIRED_method
  THEN NO_AUTHENTICATION_REQUIRED_method
  ELSE NO_ACCEPTABLE_METHODS_method

\* the method replyMethodSelection selects for a methods buffer
selectMethod(ms) ==
  IF Contains(ms, NO_AUTHENTICATION_REQUIRED_method)
  THEN NO_AUTHENTICATION_REQUIRED_method
  ELSE NO_ACCEPTABLE_METHODS_method

\* mutant: any version byte is taken for SOCKS5
isSocks5_anyVersion(buf) == Len(buf) > 0

\* handle_socks5_connection's test of the version buffer
isSocks5(buf) == Len(buf) > 0 /\ buf[1] = SOCKS5H_VERSION

\* handleSOCKS5's test of the read of the methods: only err is looked at
methodsReadFails(r) == r.err

\* ------------------------------------------------------------ address views
\* strconv of a natural: its decimal digits as ASCII codes
Decimal(n) ==
  LET RECURSIVE digits(_)
      digits(m) == IF m < 10 THEN <<48 + m>>
                   ELSE digits(m \div 10) \o <<48 + (m % 10)>>
  IN digits(n)

\* Socks5_Req.AddrStr: string(DstAddr)
AddrStr(r) == r.DstAddr

\* Socks5_Req.PortNum: binary.BigEndian.Uint16(DstPort)
PortNum(r) == r.DstPort[1] * 256 + r.DstPort[2]

\* Socks5_Req.FullAddr: fmt.Sprintf("%s:%d", AddrStr, PortNum)
FullAddr(r) == AddrStr(r) \o <<58>> \o Decimal(PortNum(r))

\* net.IP.To4 is not nil: a 4-byte address or a v4-mapped 16-byte one
To4NotNil(ip) ==
  \/ Len(ip) = 4
  \/ /\ Len(ip) = 16
     /\ \A i \in 1..10 : ip[i] = 0
     /\ ip[11] = 255 /\ ip[12] = 255

\* net.IP.String of an IPv4 address: dotted decimal text
IPString(ip) ==
  LET v4 == IF Len(ip) = 4 THEN ip ELSE SubSeq(ip, 13, 16) IN
  Decimal(v4[1]) \o <<46>> \o Decimal(v4[2]) \o <<46>>
    \o Decimal(v4[3]) \o <<46>> \o Decimal(v4[4])

\* Socks5_Res.AddrBytes: []byte(BindAddr)
AddrBytes(s) == s.BindAddr

\* mutant: the port is written low byte first
PortBytes_littleEndian(s) == <<s.BindPort % 256, (s.BindPort % 65536) \div 256>>

\* Socks5_Res.PortBytes: binary.BigEndian.PutUint16(uint16(BindPort))
PortBytes(s) == <<(s.BindPort % 65536) \div 256, s.BindPort % 256>>

\* Socks5_Res{}: the zero reply
NoRes == [Reply |-> 0, AType |-> 0, BindAddr |-> << >>, BindPort |-> 0]

\* ------------------------------------------------------------ dial
\* local endpoints net.Dial("tcp4", ...) can give the outbound socket
LocalAddrs == {[IP |-> <<127, 0, 0, 1>>, Port |-> 40000],
               [IP |-> <<10, 0, 0, 2>>, Port |-> 443]}

\* what net.Dial can return: an error, or a connection with a local endpoint
DialFailed == [ok |-> FALSE, local |-> [IP |-> << >>, Port |-> 0]]
DialOutcomes == {DialFailed} \cup {[ok |-> TRUE, local |-> a] : a \in LocalAddrs}

\* mutant: every command is handed to connectDst
isConnect_any(r) == TRUE

\* prepareProxy's test of the command
isConnect(r) == r.Cmd = CONNECT_cmd

\* connectDst dials only for a domain-name request
dials(r) == r.AType = DOMAINNAME_addr

\* remote.LocalAddr() on the connection connectDst holds: a nil interface
\* value makes the call panic
localAddrPanics(remote) == remote = "nil"

\* the address type connectDst puts in the reply for a local IP
bindAType(ip) ==
  IF To4NotNil(ip) THEN IP_V4_addr
  ELSE IF Len(ip) = 16 THEN IP_V6_addr
  ELSE DOMAINNAME_addr

\* connectDst(req) when net.Dial, if called, returns d
connectDst(r, d) ==
  LET remote == IF dials(r) /\ d.ok THEN "open" ELSE "nil"
      err == IF dials(r) /\ ~d.ok THEN ErrIO ELSE ErrNone
      reply == IF dials(r) THEN SUCCEEDED_connReply
               ELSE ADDRESS_TYPE_NOT_SUPPORTED_connReply
  IN IF localAddrPanics(remote)
     THEN [panic |-> TRUE, remote |-> remote, res |-> NoRes, err |-> err]
     ELSE IF remote # "nil"
     THEN [panic |-> FALSE, remote |-> remote,
           res |-> [Reply |-> reply, AType |-> bindAType(d.local.IP),
                    BindAddr |-> IPString(d.local.IP),
                    BindPort |-> d.local.Port],
           err |-> err]
     ELSE [panic |-> FALSE, remote |-> remote,
           res |-> [NoRes EXCEPT !.Reply = reply], err |-> err]

\* the reply slice replyConnInfo builds
connReplyBytes(s) ==
  <<SOCKS5H_VERSION, s.Reply, RSV, s.AType>> \o AddrBytes(s) \o PortBytes(s)

\* mutant: the outcome of the write is ignored
replyConnInfoErr_ignored(w, reply) == ErrNone

\* what replyConnInfo returns for the outcome w of writing reply
replyConnInfoErr(w, reply) ==
  IF w.err THEN ErrIO
  ELSE IF w.n # Len(reply) THEN ErrShortReply
  ELSE ErrNone

VARIABLES
  variant,       \* "proxy": src/server/server.go, "parse_only": src/handlers/handler.go
  sent,          \* the bytes the client sends on the connection
  stream,        \* the bytes of sent the server has not read yet
  pc,            \* position of the connection's goroutine
  methods,       \* the methods buffer passed to replyMethodSelection
  methodsRead,   \* bytes the read of the methods returned (0 if no such read)
  written,       \* bytes the client socket has accepted from the server
  header,        \* the header buffer of readSockRequest
  headerRead,    \* bytes the read of the header returned
  addrReads,     \* the reads of the address reader: <<asked, returned>> each
  req,           \* the request readSockRequest returned
  dialled,       \* the address net.Dial was called with, << >> if it was not
  remote,        \* the destination connection: "nil" or "open"
  res,           \* the Socks5_Res prepareProxy returned
  connReply,     \* the reply slice replyConnInfo handed to conn.Write
  localAddrOf,   \* the connection connectDst called LocalAddr() on: "none"
                 \* before the call, then "nil" or "open"
  c2d,           \* io.Copy(remote, client) on the spawned goroutine
  d2c,           \* io.Copy(client, remote) on the handler's goroutine
  writeErr,      \* tunnel's result variable the spawned goroutine assigns
  tunnelRet,     \* the pair tunnel returned, << >> until it returns
  recovered,     \* the supervisor's deferred recover() caught a panic
  listener,      \* the accept loop: "accepting", "failed" (Accept returned an
                 \* error), "crashed" (a panic no one recovered ended the process)
  accepted,      \* connections accepted after the one that is followed
  dispatched,    \* handler goroutines started for those connections
  acceptedAfterExit, \* one of them was accepted after the followed handler ended
  clientClosed,  \* conn.Close() has run on the client socket
  result         \* what the connection handler returned

hs == <<methods, methodsRead, header, headerRead, addrReads, req>>
px == <<dialled, remote, res, connReply, localAddrOf>>
tn == <<c2d, d2c, writeErr, tunnelRet>>

sv == <<listener, accepted, dispatched, acceptedAfterExit>>

vars == <<variant, sent, stream, pc, written, hs, px, tn, recovered,
          clientClosed, result, sv>>

Init ==
  /\ variant \in {"proxy", "parse_only"}
  /\ sent \in ClientStreams
  /\ stream = sent
  /\ pc = "handle_socks5_connection"
  /\ methods = << >>
  /\ methodsRead = 0
  /\ written = << >>
  /\ header = << >>
  /\ headerRead = 0
  /\ addrReads = << >>
  /\ req = NoReq
  /\ dialled = << >>
  /\ remote = "nil"
  /\ res = NoRes
  /\ connReply = << >>
  /\ localAddrOf = "none"
  /\ c2d = "idle"
  /\ d2c = "idle"
  /\ writeErr = ErrNone
  /\ tunnelRet = << >>
  /\ recovered = FALSE
  /\ listener = "accepting"
  /\ accepted = 0
  /\ dispatched = 0
  /\ acceptedAfterExit = FALSE
  /\ clientClosed = FALSE
  /\ result = Running

\* the process runs: no panic of the accept loop or of a goroutine ended it
Alive == listener = "accepting"

\* return e from the connection handler: the deferred conn.Close() runs
Return(e) ==
  /\ pc' = "done"
  /\ result' = e
  /\ clientClosed' = TRUE
  /\ UNCHANGED <<recovered, sv>>

\* mutant: the client socket is closed on return only, not on a panic
Unwind_noClose ==
  /\ pc' = "done"
  /\ result' = Panic
  /\ clientClosed' = clientClosed
  /\ recovered' = TRUE
  /\ UNCHANGED sv

\* mutant: the goroutine has no deferred recover(), so the panic ends the
\* process and its accept loop
Unwind_noRecover ==
  /\ pc' = "done"
  /\ result' = Panic
  /\ clientClosed' = TRUE
  /\ recovered' = FALSE
  /\ listener' = "crashed"
  /\ UNCHANGED <<accepted, dispatched, acceptedAfterExit>>

\* a panic unwinds the handler: the deferred conn.Close() runs, then the
\* deferred recover() of the goroutine started by Setup_SOCKS5H_Server
Unwind ==
  /\ pc' = "done"
  /\ result' = Panic
  /\ clientClosed' = TRUE
  /\ recovered' = TRUE
  /\ listener' = listener
  /\ UNCHANGED <<accepted, dispatched, acceptedAfterExit>>

\* stay in the handler, at position p
Goto(p) ==
  /\ pc' = p
  /\ UNCHANGED <<result, clientClosed, recovered, sv>>

\* handle_socks5_connection: read the version byte and dispatch on it
handle_socks5_connection ==
  /\ Alive
  /\ pc = "handle_socks5_connection"
  /\ \E r \in Read(1, stream) :
       /\ stream' = r.rest
       /\ IF r.err THEN Return(ErrIO)
          ELSE IF isSocks5(r.buf)
          THEN Goto("handleSOCKS5")
          ELSE Return(ErrNotSocks5)
  /\ UNCHANGED <<variant, sent, written, hs, px, tn>>

\* handleSOCKS5, the greeting: read NMETHODS, then the methods into a
\* buffer of NMETHODS bytes
handleSOCKS5 ==
  /\ Alive
  /\ pc = "handleSOCKS5"
  /\ \E n \in Read(1, stream) :
       IF n.err
       THEN /\ stream' = n.rest
            /\ Return(ErrIO)
            /\ UNCHANGED <<methods, methodsRead>>
       ELSE IF Len(n.buf) > 0 /\ n.buf[1] > 0
       THEN \E m \in Read(n.buf[1], n.rest) :
              /\ stream' = m.rest
              /\ IF methodsReadFails(m)
                 THEN Return(ErrIO) /\ UNCHANGED <<methods, methodsRead>>
                 ELSE /\ methods' = m.buf
                      /\ methodsRead' = m.n
                      /\ Goto("replyMethodSelection")
       ELSE /\ stream' = n.rest
            /\ methods' = << >>
            /\ methodsRead' = 0
            /\ Goto("replyMethodSelection")
  /\ UNCHANGED <<variant, sent, written, header, headerRead, addrReads, req, px,
                 tn>>

\* mutant: the handler gives up once it has refused every offered method
replyMethodSelection_closing ==
  /\ Alive
  /\ pc = "replyMethodSelection"
  /\ LET reply == <<SOCKS5H_VERSION, selectMethod(methods)>> IN
     \E w \in Write(reply) :
       /\ written' = written \o SubSeq(reply, 1, w.n)
       /\ IF w.err \/ reply[2] = NO_ACCEPTABLE_METHODS_method
          THEN Return(ErrIO) ELSE Goto("readSockRequest")
  /\ UNCHANGED <<variant, sent, stream, hs, px, tn>>

\* replyMethodSelection: write [version, selected method]
replyMethodSelection ==
  /\ Alive
  /\ pc = "replyMethodSelection"
  /\ LET reply == <<SOCKS5H_VERSION, selectMethod(methods)>> IN
     \E w \in Write(reply) :
       /\ written' = written \o SubSeq(reply, 1, w.n)
       /\ IF w.err THEN Return(ErrIO) ELSE Goto("readSockRequest")
  /\ UNCHANGED <<variant, sent, stream, hs, px, tn>>

\* handleSOCKS5 calling readSockRequest; the parse-only variant returns
\* right after it
handleSOCKS5_readSockRequest ==
  /\ Alive
  /\ pc = "readSockRequest"
  /\ \E r \in readSockRequest(stream) :
       /\ stream' = r.rest
       /\ header' = r.header
       /\ headerRead' = r.hn
       /\ addrReads' = r.reads
       /\ req' = r.req
       /\ IF r.err # ErrNone THEN Return(r.err)
          ELSE IF variant = "parse_only" THEN Return(ErrNone)
          ELSE Goto("prepareProxy")
  /\ UNCHANGED <<variant, sent, methods, methodsRead, written, px, tn>>

\* handleSOCKS5 calling prepareProxy: connectDst for CONNECT, nothing for
\* the other commands; then the checks on err and remote
prepareProxy ==
  /\ Alive
  /\ pc = "prepareProxy"
  /\ IF isConnect(req)
     THEN \E d \in IF dials(req) THEN DialOutcomes ELSE {DialFailed} :
            LET c == connectDst(req, d) IN
            /\ dialled' = IF dials(req) THEN FullAddr(req) ELSE << >>
            /\ remote' = c.remote
            /\ res' = c.res
            /\ localAddrOf' = c.remote
            /\ IF c.panic THEN Unwind
               ELSE IF c.err # ErrNone THEN Return(c.err)
               ELSE IF c.remote = "nil" THEN Return(ErrNoRemote)
               ELSE Goto("replyConnInfo")
     ELSE /\ Return(ErrNoRemote)
          /\ UNCHANGED <<dialled, remote, res, localAddrOf>>
  /\ UNCHANGED <<variant, sent, stream, written, hs, connReply, tn>>

\* replyConnInfo: build the reply and write it in one conn.Write
replyConnInfo ==
  /\ Alive
  /\ pc = "replyConnInfo"
  /\ LET reply == connReplyBytes(res) IN
     \E w \in Write(reply) :
       /\ connReply' = reply
       /\ written' = written \o SubSeq(reply, 1, w.n)
       /\ IF replyConnInfoErr(w, reply) # ErrNone
          THEN Return(replyConnInfoErr(w, reply))
          ELSE Goto("tunnel")
  /\ UNCHANGED <<variant, sent, stream, hs, dialled, remote, res, localAddrOf,
                 tn>>

\* tunnel: start the goroutine copying client to remote, and begin copying
\* remote to client on the handler's goroutine
tunnel ==
  /\ Alive
  /\ pc = "tunnel"
  /\ c2d' = "copying"
  /\ d2c' = "copying"
  /\ Goto("io.Copy")
  /\ UNCHANGED <<variant, sent, stream, written, hs, px, writeErr, tunnelRet>>

\* the spawned goroutine: io.Copy(remote, client) ends and its result is
\* assigned to writeErr; reading a closed client socket is an error
tunnel_goroutine ==
  /\ Alive
  /\ c2d = "copying"
  /\ c2d' = "done"
  /\ \E e \in IF clientClosed THEN {ErrIO} ELSE {ErrNone, ErrIO} : writeErr' = e
  /\ UNCHANGED <<variant, sent, stream, pc, written, hs, px, d2c, tunnelRet,
                 recovered, clientClosed, result, sv>>

\* io.Copy(client, remote) ends, tunnel returns (readErr, writeErr) as they
\* are at that moment, and handleSOCKS5 returns
tunnel_return ==
  /\ Alive
  /\ pc = "io.Copy"
  /\ d2c' = "done"
  /\ \E readErr \in {ErrNone, ErrIO} :
       /\ tunnelRet' = <<readErr, writeErr>>
       /\ IF readErr # ErrNone \/ writeErr # ErrNone
          THEN Return(ErrTunnel)
          ELSE Return(ErrNone)
  /\ UNCHANGED <<variant, sent, stream, written, hs, px, c2d, writeErr>>

\* Setup_SOCKS5H_Server, one turn of the accept loop: Accept returns an error
\* and the loop panics, or it returns a connection and a goroutine is started
\* for its handler; the loop does not wait for any handler
Setup_SOCKS5H_Server ==
  /\ Alive
  /\ accepted < MaxConns
  /\ \E ok \in BOOLEAN :
       IF ok
       THEN /\ accepted' = accepted + 1
            /\ dispatched' = dispatched + 1
            /\ acceptedAfterExit' = (acceptedAfterExit \/ pc = "done")
            /\ UNCHANGED listener
       ELSE /\ listener' = "failed"
            /\ UNCHANGED <<accepted, dispatched, acceptedAfterExit>>
  /\ UNCHANGED <<variant, sent, stream, pc, written, hs, px, tn, recovered,
                 clientClosed, result>>

Next ==
  \/ handle_socks5_connection
  \/ handleSOCKS5
  \/ replyMethodSelection
  \/ handleSOCKS5_readSockRequest
  \/ prepareProxy
  \/ replyConnInfo
  \/ tunnel
  \/ tunnel_goroutine
  \/ tunnel_return
  \/ Setup_SOCKS5H_Server

Spec == Init /\ [][Next]_vars

\* ------------------------------------------------------------ codec views
\* largest port a uint16 holds
MaxUint16 == 65535

\* bind addresses as Socks5_Res holds them, one per address type: the text of
\* an IPv4 address, a domain name ("a.io"), the text of an IPv6 address ("::1")
CodecAddrs ==
  {[AType |-> IP_V4_addr, BindAddr |-> IPString(<<10, 0, 0, 2>>)],
   [AType |-> DOMAINNAME_addr, BindAddr |-> <<97, 46, 105, 111>>],
   [AType |-> IP_V6_addr, BindAddr |-> <<58, 58, 49>>]}

\* a Socks5_Res to encode: any of the addresses with any port
CodecInit ==
  /\ variant = "proxy"
  /\ sent = << >>
  /\ stream = << >>
  /\ pc = "AddrBytes/PortBytes"
  /\ methods = << >>
  /\ methodsRead = 0
  /\ written = << >>
  /\ header = << >>
  /\ headerRead = 0
  /\ addrReads = << >>
  /\ req = NoReq
  /\ dialled = << >>
  /\ remote = "nil"
  /\ \E a \in CodecAddrs, p \in 0..MaxUint16 :
       res = [Reply |-> SUCCEEDED_connReply, AType |-> a.AType,
              BindAddr |-> a.BindAddr, BindPort |-> p]
  /\ connReply = << >>
  /\ localAddrOf = "none"
  /\ c2d = "idle"
  /\ d2c = "idle"
  /\ writeErr = ErrNone
  /\ tunnelRet = << >>
  /\ recovered = FALSE
  /\ listener = "accepting"
  /\ accepted = 0
  /\ dispatched = 0
  /\ acceptedAfterExit = FALSE
  /\ clientClosed = FALSE
  /\ result = Running

\* the reply views: the address bytes, then the port bytes
codec_encode ==
  /\ pc = "AddrBytes/PortBytes"
  /\ connReply' = AddrBytes(res) \o PortBytes(res)
  /\ pc' = "AddrStr/PortNum"
  /\ UNCHANGED <<variant, sent, stream, written, hs, dialled, remote, res,
                 localAddrOf, tn, recovered, clientClosed, result, sv>>

\* a request holding those bytes as DstAddr and DstPort, for the request views
codec_decode ==
  /\ pc = "AddrStr/PortNum"
  /\ req' = [Version |-> SOCKS5H_VERSION, Cmd |-> CONNECT_cmd,
             AType |-> res.AType,
             DstAddr |-> SubSeq(connReply, 1, Len(connReply) - 2),
             DstPort |-> SubSeq(connReply, Len(connReply) - 1, Len(connReply))]
  /\ pc' = "decoded"
  /\ UNCHANGED <<variant, sent, stream, written, methods, methodsRead, header,
                 headerRead, addrReads, px, tn, recovered, clientClosed,
                 result, sv>>

CodecNext ==
  \/ codec_encode
  \/ codec_decode

SpecCodec == CodecInit /\ [][CodecNext]_vars

\* ------------------------------------------------------------ properties
\* the method bytes the client put in its greeting
Offered == SubSeq(sent, 3, 2 + sent[2])

\* the read of the methods returned every method byte the client announced
MethodsDelivered == methodsRead = Len(Offered)

\* the first n bytes of s, all of s if it is shorter
Take(s, n) == SubSeq(s, 1, Min(n, Len(s)))

\* the 2 bytes of the method selection are on the wire
SelectionWritten == Len(written) >= 2

\* tunnel has been called
TunnelEntered == d2c # "idle"

\* C1: when the method bytes of the greeting are fully delivered, the method
\* selection written to the client is 05 00 iff 00 is among the offered
\* methods, and 05 FF otherwise (an empty list included), whatever the order
\* or the repetitions of the offered methods.
C1_MethodSelection ==
  (SelectionWritten /\ MethodsDelivered) =>
     Take(written, 2) =
       <<SOCKS5H_VERSION,
         IF NO_AUTHENTICATION_REQUIRED_method \in {Offered[i] : i \in 1..Len(Offered)}
         THEN NO_AUTHENTICATION_REQUIRED_method
         ELSE NO_ACCEPTABLE_METHODS_method>>

\* NO_AUTH offered second, after another method, fully delivered and selected
C1_Witness ==
  /\ SelectionWritten /\ MethodsDelivered
  /\ Offered = <<USERNAME_PASSWORD_method, NO_AUTHENTICATION_REQUIRED_method>>
  /\ written = <<SOCKS5H_VERSION, NO_AUTHENTICATION_REQUIRED_method>>

\* C2: scenario A: a client that offered NO_AUTH, got 05 00 and sent a
\* well-formed CONNECT request of address type IPV4 gets a connection reply
\* with code SUCCEEDED and address type 01, and its handler does not end in a
\* panic.
C2_ScenarioA ==
  (/\ variant = "proxy"
   /\ pc = "done"
   /\ Take(written, 2) = <<SOCKS5H_VERSION, NO_AUTHENTICATION_REQUIRED_method>>
   /\ req.Cmd = CONNECT_cmd
   /\ req.AType = IP_V4_addr) =>
     /\ result # Panic
     /\ Len(connReply) >= 4
     /\ connReply[2] = SUCCEEDED_connReply
     /\ connReply[4] = IP_V4_addr

\* the dial step could not give a destination connection for a parsed CONNECT
\* request: net.Dial failed, or the address type is one it does not dial
DialStepFailed ==
  /\ variant = "proxy"
  /\ pc = "done"
  /\ req.Cmd = CONNECT_cmd
  /\ remote = "nil"

\* C3: when the destination of a well-formed CONNECT request cannot be dialed
\* or its address type is not supported by the dial step, a connection reply
\* with a failure code is written to the client, no tunnel is started, and the
\* client connection is closed.
C3_FailureReply ==
  DialStepFailed =>
     /\ Len(connReply) >= 4
     /\ connReply[2] # SUCCEEDED_connReply
     /\ written = Take(written, 2) \o connReply
     /\ ~TunnelEntered
     /\ clientClosed

\* the version byte has been read
VersionRead == Len(stream) < Len(sent)

\* the errors readSockRequest returns for a request it rejects
RequestErrors ==
  {ErrHeaderLen, ErrVerRsv, ErrCmd, ErrAtyp, ErrDomainLen, ErrDomain,
   ErrDomainPort, ErrIPv4, ErrIPv4Port, ErrIPv6, ErrIPv6Port}

\* C4: if the first byte read from the client is not 05, the handler returns
\* the not-SOCKS5 error, which no malformed SOCKS5 request produces, the client
\* connection is closed, nothing is written to the client and nothing more is
\* read from it.
C4_NotSocks5 ==
  /\ (VersionRead /\ sent[1] # SOCKS5H_VERSION) =>
        /\ pc = "done"
        /\ result = ErrNotSocks5
        /\ clientClosed
        /\ written = << >>
        /\ Len(stream) = Len(sent) - 1
  /\ (VersionRead /\ sent[1] = SOCKS5H_VERSION) => result # ErrNotSocks5
  /\ ErrNotSocks5 \notin RequestErrors

\* a connection that began with version 04 and was turned away
C4_Witness ==
  /\ sent[1] = 4
  /\ pc = "done"
  /\ result = ErrNotSocks5
  /\ clientClosed

\* readSockRequest read a complete header whose VER or RSV is wrong
BadVerOrRsv ==
  /\ headerRead = 4
  /\ header[1] # SOCKS5H_VERSION \/ header[3] # RSV

\* C5: a request header with VER # 05 or RSV # 00 makes readSockRequest fail,
\* whatever CMD and ATYP are; no destination is dialed and the client has
\* received nothing but the 2 bytes of the method selection.
C5_BadHeaderRejected ==
  BadVerOrRsv =>
     /\ pc = "done"
     /\ result \notin {Running, ErrNone, Panic}
     /\ req = NoReq
     /\ dialled = << >>
     /\ remote = "nil"
     /\ connReply = << >>
     /\ Len(written) = 2

\* a CONNECT request to a domain name, right but for RSV = 01, rejected
C5_Witness ==
  /\ BadVerOrRsv
  /\ header = <<SOCKS5H_VERSION, CONNECT_cmd, 1, DOMAINNAME_addr>>
  /\ result = ErrVerRsv
  /\ variant = "proxy"

\* C6: tunnel has returned only if the copy from the client to the destination
\* on the spawned goroutine has ended.
C6_TunnelWaitsForBoth ==
  tunnelRet # << >> => (c2d = "done" /\ d2c = "done")

\* C7: whenever the connection handler has been left, by a return or by a
\* panic, the client socket is closed.
C7_ClientClosedOnExit ==
  /\ pc = "done" => clientClosed
  /\ result # Running => clientClosed

\* the handler was left by the panic of the dial step, caught by the supervisor
C7_Witness ==
  /\ result = Panic
  /\ recovered
  /\ clientClosed

\* C8: tunnel runs only for a CONNECT request whose dial succeeded and whose
\* connection reply, carrying SUCCEEDED, has been written to the client whole.
C8_TunnelOnlyAfterSucceeded ==
  TunnelEntered =>
     /\ req.Cmd = CONNECT_cmd
     /\ dialled # << >>
     /\ remote = "open"
     /\ Len(connReply) >= 4
     /\ connReply[2] = SUCCEEDED_connReply
     /\ written = Take(written, 2) \o connReply
     /\ Len(written) = 2 + Len(connReply)

\* both copy directions of a tunnel have ended
C8_Witness ==
  /\ TunnelEntered
  /\ c2d = "done" /\ d2c = "done"
  /\ result = ErrNone

\* the bytes of a reply after its 4-byte head fit its address type
ReplyLayoutOK(r) ==
  /\ Len(r) >= 4
  /\ r[1] = SOCKS5H_VERSION
  /\ r[3] = RSV
  /\ r[4] \in {IP_V4_addr, DOMAINNAME_addr, IP_V6_addr}
  /\ r[4] = IP_V4_addr => Len(r) = 4 + 4 + 2
  /\ r[4] = IP_V6_addr => Len(r) = 4 + 16 + 2
  /\ r[4] = DOMAINNAME_addr => (Len(r) >= 5 /\ Len(r) = 4 + 1 + r[5] + 2)

\* C9: every connection reply handed to the client socket is 05, REP, 00,
\* ATYP, then 4 address bytes for ATYP 01, 16 for ATYP 04, a length byte and
\* that many bytes for ATYP 03, then 2 port bytes.
C9_ReplyLayout ==
  connReply # << >> => ReplyLayoutOK(connReply)

\* the read of the methods returned fewer bytes than NMETHODS announced
MethodsShortRead == methodsRead > 0 /\ methodsRead < Len(methods)

\* C10: when the read of the methods returns fewer bytes than NMETHODS
\* announced, the greeting read fails with an error and no method selection is
\* written.
C10_ShortGreetingFails ==
  MethodsShortRead =>
     /\ pc = "done"
     /\ result \notin {Running, ErrNone}
     /\ written = << >>

\* bytes of the client's stream the server has read
Consumed == Len(sent) - Len(stream)

\* some read of the address reader returned fewer bytes than it asked for
AddrShortRead ==
  \E i \in 1..Len(addrReads) : addrReads[i][2] < addrReads[i][1]

\* DST.ADDR of a parsed request as it stands on the wire
AddrOnWire(r) ==
  IF r.AType = DOMAINNAME_addr THEN <<Len(r.DstAddr)>> \o r.DstAddr ELSE r.DstAddr

\* the reads the address reader of a parsed request makes when all succeed
FullReads(r) ==
  IF r.AType = IP_V4_addr THEN <<<<4, 4>>, <<2, 2>>>>
  ELSE IF r.AType = IP_V6_addr THEN <<<<16, 16>>, <<2, 2>>>>
  ELSE <<<<1, 1>>, <<Len(r.DstAddr), Len(r.DstAddr)>>, <<2, 2>>>>

\* C11: an address reader one of whose reads returns fewer bytes than asked
\* fails, and the request is rejected without a dial; a request that is
\* accepted has consumed exactly its address payload and then 2 port bytes.
C11_AddressReaders ==
  /\ AddrShortRead =>
        /\ pc = "done"
        /\ result \notin {Running, ErrNone, Panic}
        /\ req = NoReq
        /\ dialled = << >>
        /\ remote = "nil"
  /\ req # NoReq =>
        /\ addrReads = FullReads(req)
        /\ Len(req.DstPort) = 2
        /\ LET wire == AddrOnWire(req) \o req.DstPort IN
           /\ Consumed = 2 + methodsRead + 4 + Len(wire)
           /\ SubSeq(sent, Consumed - Len(wire) + 1, Consumed) = wire

\* the domain-name reader got its length byte and its name, but only 1 of the
\* 2 port bytes
C11_Witness ==
  /\ addrReads = <<<<1, 1>>, <<1, 1>>, <<2, 1>>>>
  /\ result = ErrDomainPort
  /\ pc = "done"

\* readSockRequest read a complete header with VER = 05 and RSV = 00
GoodVerRsv ==
  /\ headerRead = 4
  /\ header[1] = SOCKS5H_VERSION
  /\ header[3] = RSV

\* C12: with VER = 05 and RSV = 00, readSockRequest fails if CMD is outside
\* 1..3 or ATYP is none of 01, 03, 04, and then reads nothing after the
\* 4-byte header; for ATYP 01, 03, 04 the reader of that type is the one used.
C12_CmdAndAtyp ==
  GoodVerRsv =>
     IF header[2] \notin CONNECT_cmd..UDP_ASSOCIATE_cmd
          \/ header[4] \notin {IP_V4_addr, DOMAINNAME_addr, IP_V6_addr}
     THEN /\ pc = "done"
          /\ result \in {ErrCmd, ErrAtyp}
          /\ req = NoReq
          /\ addrReads = << >>
          /\ Consumed = 2 + methodsRead + 4
     ELSE /\ addrReads # << >>
          /\ addrReads[1][1] = (IF header[4] = IP_V4_addr THEN 4
                                ELSE IF header[4] = IP_V6_addr THEN 16
                                ELSE 1)

\* a well-formed header but for ATYP = 02, rejected with nothing read after it
C12_Witness ==
  /\ GoodVerRsv
  /\ header = <<SOCKS5H_VERSION, CONNECT_cmd, RSV, 2>>
  /\ result = ErrAtyp
  /\ addrReads = << >>

\* C13: an error or a panic of a connection's handler stays in that
\* connection's goroutine: the process and its accept loop are not ended by
\* it, the loop can take its next connection whatever the followed handler is
\* doing (returned, panicked, or waiting on its client), and every connection
\* accepted has a handler goroutine of its own.
C13_FaultsConfined ==
  /\ listener # "crashed"
  /\ dispatched = accepted
  /\ (listener = "accepting" /\ accepted < MaxConns) => ENABLED Setup_SOCKS5H_Server

\* a connection was accepted and dispatched after the followed handler had
\* panicked in the dial step
C13_Witness ==
  /\ result = Panic
  /\ recovered
  /\ acceptedAfterExit
  /\ dispatched >= 1
  /\ listener = "accepting"

\* C14: for every port in 0..65535 PortNum gives back the port whose 2 bytes
\* PortBytes produced (big-endian), and for each of the three address types
\* AddrStr gives back the address whose bytes AddrBytes produced.
C14_RoundTrip ==
  pc = "decoded" =>
     /\ PortNum(req) = res.BindPort
     /\ AddrStr(req) = res.BindAddr
     /\ Len(req.DstPort) = 2

\* port 443 (01 BB) of the IPv4 address has made the round trip
C14_Witness ==
  /\ pc = "decoded"
  /\ res.AType = IP_V4_addr
  /\ res.BindPort = 443
  /\ req.DstPort = <<1, 187>>
  /\ PortNum(req) = 443

\* the bound address and port of a reply are those of a local endpoint that
\* net.Dial can give
BoundToLocalEndpoint(s) ==
  \E a \in LocalAddrs : s.BindAddr = IPString(a.IP) /\ s.BindPort = a.Port

\* C15: the destination is dialed only after readSockRequest has returned a
\* request and before any connection reply is built; a reply carrying
\* SUCCEEDED has the local endpoint of an opened destination connection as its
\* bound address and port; and LocalAddr() is never called on the connection
\* of a dial that failed or was not attempted.
C15_DialOrder ==
  /\ dialled # << >> => req # NoReq
  /\ pc = "replyConnInfo" => (dialled # << >> /\ connReply = << >>)
  /\ connReply # << >> => dialled # << >>
  /\ (connReply # << >> /\ connReply[2] = SUCCEEDED_connReply) =>
        /\ remote = "open"
        /\ BoundToLocalEndpoint(res)
        /\ connReply = connReplyBytes(res)
  /\ localAddrOf \in {"none", "open"}

\* the proxying handler parsed a request whose command is BIND or UDP ASSOCIATE
BindOrUdp ==
  /\ variant = "proxy"
  /\ req.Cmd \in {BIND_cmd, UDP_ASSOCIATE_cmd}

\* C16: a well-formed BIND or UDP ASSOCIATE request is parsed to its end, its
\* address and port bytes consumed; nothing is dialed, no connection reply is
\* written, no tunnel is started, and the handler ends with an error and the
\* client connection closed.
C16_OtherCommands ==
  BindOrUdp =>
     /\ addrReads = FullReads(req)
     /\ Len(req.DstPort) = 2
     /\ dialled = << >>
     /\ remote = "nil"
     /\ localAddrOf = "none"
     /\ connReply = << >>
     /\ Len(written) = 2
     /\ ~TunnelEntered
     /\ pc \in {"prepareProxy", "done"}
     /\ pc = "done" => (result = ErrNoRemote /\ clientClosed)

\* a BIND request for a domain name, parsed and then turned away
C16_Witness ==
  /\ BindOrUdp
  /\ req.Cmd = BIND_cmd
  /\ req.AType = DOMAINNAME_addr
  /\ req.DstAddr = <<97>>
  /\ pc = "done"
  /\ result = ErrNoRemote

\* the selection NO_ACCEPTABLE_METHODS is on the wire
Refused ==
  /\ SelectionWritten
  /\ written[2] = NO_ACCEPTABLE_METHODS_method

\* the step that completes the write of the selection NO_ACCEPTABLE_METHODS
RefusalWritten ==
  /\ pc = "replyMethodSelection"
  /\ Len(written') = 2
  /\ written'[2] = NO_ACCEPTABLE_METHODS_method

\* C17: the step that writes the selection NO_ACCEPTABLE_METHODS leaves the
\* client connection open and moves the handler to reading the connection
\* request, the same continuation as after NO_AUTH; the handler does not end
\* there.
C17_NoForcedDisconnect ==
  [][RefusalWritten =>
       /\ pc' = "readSockRequest"
       /\ ~clientClosed'
       /\ result' = Running
       /\ stream' = stream]_vars

\* a client that was refused every method and still got its tunnel
C17_Witness ==
  /\ Refused
  /\ ~Contains(methods, NO_AUTHENTICATION_REQUIRED_method)
  /\ dialled # << >>
  /\ connReply # << >>
  /\ TunnelEntered

\* a CONNECT request for a domain name of length 0 has been parsed
EmptyDomainConnect ==
  /\ variant = "proxy"
  /\ req # NoReq
  /\ req.Cmd = CONNECT_cmd
  /\ req.AType = DOMAINNAME_addr
  /\ req.DstAddr = << >>

\* C18: a CONNECT request for a domain name of length 0 is accepted by the
\* parser with an empty address and two port bytes, the dial is given an
\* empty host, and the handling of the connection never ends in a panic,
\* whatever the dial returns.
C18_EmptyDomainNoPanic ==
  EmptyDomainConnect =>
     /\ Len(req.DstPort) = 2
     /\ addrReads = FullReads(req)
     /\ dialled # << >> => dialled = FullAddr(req)
     /\ dialled # << >> => dialled[1] = 58
     /\ result # Panic

\* one direction of the tunnel has terminated and the other is still copying
OneDirectionLeft ==
  /\ TunnelEntered
  /\ \/ c2d = "done" /\ d2c # "done"
     \/ d2c = "done" /\ c2d # "done"

\* C19: in the tunnel phase the end of one copy direction does not make the
\* server close the client socket while the other direction is still
\* copying; the client socket is closed only once both directions have ended.
C19_NoEarlyClose == OneDirectionLeft => ~clientClosed

\* the caller has the two values returned by tunnel
TunnelReturned == tunnelRet # << >>

\* C20: the two values tunnel returns are the terminal outcomes of the two
\* directions: the writeErr the caller sees is the outcome of the
\* client-to-destination copy, an error when that copy ended with an error
\* and nil only when it ended cleanly, and the caller reads writeErr only
\* after the goroutine has written it.
C20_TunnelOutcomes ==
  TunnelReturned =>
     /\ c2d = "done"
     /\ tunnelRet[2] = writeErr

\* the method bytes the server received from the client's greeting
ReceivedMethods == {methods[i] : i \in 1..Min(methodsRead, Len(methods))}

\* C21: in every reachable state, short reads of the method bytes included,
\* the method selection NO_AUTH is written only if a method byte 00 sent by the
\* client was received; the bytes of the method buffer that the read did not
\* fill do not count as offered methods.
C21_NoAuthOnlyIfReceived ==
  (SelectionWritten /\ written[2] = NO_AUTHENTICATION_REQUIRED_method) =>
     NO_AUTHENTICATION_REQUIRED_method \in ReceivedMethods

\* the proxying handler has ended, its deferred calls run
HandlerEnded ==
  /\ variant = "proxy"
  /\ pc = "done"

\* C22: no handler terminates leaving its destination socket open: once the
\* handling of the client connection has ended, after a failed reply write or
\* after the tunnel, the destination connection the dial opened is closed.
C22_RemoteClosedOnExit == HandlerEnded => remote # "open"
====
